---- MODULE Spec2Model ----
(***************************************************************************)
(* rhobs-synthetics-api: the probe service (internal/api) on top of its   *)
(* two probe stores (ConfigMap store and local file store).               *)
(*                                                                         *)
(* A request is handled by one goroutine; every call it makes to the      *)
(* Kubernetes API or to the file system is one atomic step, and the steps *)
(* of different requests interleave freely (Spec).  SpecSeq admits a new  *)
(* request only when no other request is in flight.  SpecStore calls the   *)
(* store interface directly, SpecDisk adds a process that stops inside a   *)
(* write and bad files in the directory, SpecMonitor runs MonitorProbes    *)
(* beside the handlers.  SpecLabels applies the label protection policy    *)
(* to label sets drawn from a bounded set.                                 *)
(***************************************************************************)
EXTENDS Integers, FiniteSets, Sequences, TLC

\* ------------------------------------------------------------------ bounds
MaxId == 2            \* number of uuid.New() results the model hands out
MaxOps == 3           \* requests accepted in a run with interleaving (Spec)
MaxSeqOps == 5        \* requests accepted in a run without interleaving (SpecSeq)
MaxStoreOps == 3      \* store calls made in a run of the store on its own (SpecStore)
MaxDiskOps == 3       \* store calls and bad files in a run of SpecDisk
MaxMonOps == 3        \* requests accepted in a run beside MonitorProbes (SpecMonitor)

\* --------------------------------------------------------------- constants
baseAppLabelKey == "app"
baseAppLabelValue == "rhobs-synthetics-probe"
probeURLHashLabelKey == "rhobs-synthetics/static-url-hash"
probeStatusLabelKey == "rhobs-synthetics/status"
privateProbeLabelKey == "private"

Pending == "pending"
Active == "active"
Failed == "failed"
Terminating == "terminating"
Deleted == "deleted"
\* a status string outside the enumeration (nothing in the handlers checks it)
UnknownStatus == "unknown"
\* request.Body.Status == nil
NoStatus == ""

Backends == {"k8s", "local"}
Procs == {"p1", "p2"}
Ids == 1..MaxId
Urls == {"u1", "u2"}

\* sha256 of the URL, hex, cut to 63 characters (252 bits): a string that is
\* not the URL; the two model URLs do not collide.
UrlHash(url) == IF url = "u1" THEN "h1" ELSE "h2"

\* ------------------------------------------------------------- label sets
EmptyLabels == [k \in {} |-> ""]

Overlay(base, over) ==
  [k \in (DOMAIN base) \cup (DOMAIN over) |->
      IF k \in DOMAIN over THEN over[k] ELSE base[k]]

Lbl(k, v) == [x \in {k} |-> v]

HasLabel(labels, k, v) == k \in DOMAIN labels /\ labels[k] = v

\* label sets a client sends with POST /probes
CreateLabelSets ==
  { EmptyLabels,
    [k \in {"env", privateProbeLabelKey} |-> IF k = "env" THEN "prod" ELSE "true"],
    Lbl(probeURLHashLabelKey, "evil") }

\* label sets a client sends with PATCH /probes/{id} (nil is the empty set)
UpdateLabelSets ==
  { EmptyLabels,
    Lbl("env", "test"),
    Lbl(privateProbeLabelKey, "true"),
    Lbl(baseAppLabelKey, "x"),
    Lbl(probeStatusLabelKey, Active),
    Lbl(probeURLHashLabelKey, "evil") }

UpdateStatuses == {NoStatus, Active, Failed, Deleted, UnknownStatus}

\* ---------------------------------------------------------------- records
NilProbe == [id |-> 0, static_url |-> "", status |-> "", labels |-> EmptyLabels]
NilCM == [labels |-> EmptyLabels, data |-> NilProbe, rv |-> 0]
\* a request slot: op and pc say where the handler stands; arg is the probe as
\* handed to the store call, probe the handler's working copy, data the bytes
\* it marshalled, fd what its open descriptor of <id>.json.tmp refers to,
\* sel the selector handed to ListProbes, status and labels the body of a
\* PATCH request
IdleReq == [op |-> "idle", pc |-> "idle", id |-> 0, hash |-> "", status |-> "",
            labels |-> EmptyLabels, probe |-> NilProbe, cm |-> NilCM,
            arg |-> NilProbe, data |-> <<>>, fd |-> "none", sel |-> <<>>]
\* err is the error of the store call ("" when it returned none), list the
\* probes a List returned
NoResp == [proc |-> "none", op |-> "none", code |-> 0, id |-> 0, probe |-> NilProbe,
           err |-> "", list |-> {}]

\* ---------------------------------------------------------- serialization
\* A file's content is a sequence of blocks.  json.MarshalIndent of a probe
\* gives one block per line group of the document (the fixed fields, then one
\* per label), so probes with more labels serialize longer; every block is
\* tagged with the document it belongs to.
Size(probe) == 1 + Cardinality(DOMAIN probe.labels)

RECURSIVE Blocks(_, _)
Blocks(probe, n) == IF n = 0 THEN <<>> ELSE Append(Blocks(probe, n - 1), probe)

MarshalIndent(probe) == Blocks(probe, Size(probe))

\* json.Unmarshal succeeds on exactly the complete documents
Unmarshalable(data) == data # <<>> /\ data = MarshalIndent(data[1])

\* what Unmarshal leaves in the probe (the zero value when it fails)
Unmarshal(data) == IF Unmarshalable(data) THEN data[1] ELSE NilProbe

\* write(2) of data at offset 0 of a file holding content
WriteAtStart(content, data) ==
  IF Len(data) >= Len(content) THEN data
  ELSE data \o SubSeq(content, Len(data) + 1, Len(content))

VARIABLES
  backend,      \* the store chosen at startup
  configMaps,   \* k8s store: id -> ConfigMap "probe-config-<id>"
  files,        \* local store: id -> content of "<id>.json"
  tmp,          \* local store: id -> content of "<id>.json.tmp"
  nextId,       \* the next value uuid.New() returns
  req,          \* per request slot: the request in flight and its locals
  resp,         \* the response written by the last step (NoResp: none)
  ops,          \* requests accepted so far
  mode,         \* which specification runs: "interleaved", "sequential", "store",
                \* "disk", "monitor" or "policy"
  vOld, vNew, vRes,  \* inputs and result of validateProtectedLabels
  mon,          \* MonitorProbes: where the goroutine stands (pc) and how the
                \* listing of its last cycle ended (listed)
  ctxDone,      \* the context handed to MonitorProbes has been cancelled
  ticker,       \* a tick is waiting in ticker.C (a channel of capacity one)
  probesTotal   \* the probes-total gauge: <<state, private>> -> value

vars == <<backend, configMaps, files, tmp, nextId, req, resp, ops, mode, vOld, vNew, vRes,
          mon, ctxDone, ticker, probesTotal>>
monVars == <<mon, ctxDone, ticker, probesTotal>>
storeVars == <<configMaps, files>>
labelVars == <<vOld, vNew, vRes>>

\* ------------------------------------------------ label protection policy
ProtectedLabelKeys ==
  {baseAppLabelKey, probeStatusLabelKey, probeURLHashLabelKey, privateProbeLabelKey}

\* variant: a protected key the existing labels lack may be introduced
validateProtectedLabels_AllowsNew(new, old) ==
  \A k \in (DOMAIN new) \cap ProtectedLabelKeys :
      k \in DOMAIN old => old[k] = new[k]

\* variant: only the presence of the key in the existing labels is checked
validateProtectedLabels_IgnoresValue(new, old) ==
  \A k \in (DOMAIN new) \cap ProtectedLabelKeys : k \in DOMAIN old

\* variant: a protected key must also not be dropped from the proposed labels
validateProtectedLabels_BothSides(new, old) ==
  \A k \in ((DOMAIN new) \cup (DOMAIN old)) \cap ProtectedLabelKeys :
      k \in DOMAIN old /\ k \in DOMAIN new /\ old[k] = new[k]

\* TRUE when the proposed labels pass (the function returns a nil error)
validateProtectedLabels(new, old) ==
  \A k \in (DOMAIN new) \cap ProtectedLabelKeys :
      k \in DOMAIN old /\ old[k] = new[k]

\* the request's labels laid over the labels of the record just fetched
mergeRequestLabels(existing, requested) == Overlay(existing, requested)

\* --------------------------------------------------- ConfigMap probe store
K8sSystemLabels(probe, urlHashString) ==
  [k \in {baseAppLabelKey, probeURLHashLabelKey, probeStatusLabelKey} |->
      IF k = baseAppLabelKey THEN baseAppLabelValue
      ELSE IF k = probeURLHashLabelKey THEN urlHashString
      ELSE probe.status]

\* variant: the status label is not set at creation
K8sNewConfigMap_NoStatusLabel(probe, urlHashString) ==
  [labels |-> Overlay(probe.labels,
                [k \in {baseAppLabelKey, probeURLHashLabelKey} |->
                    IF k = baseAppLabelKey THEN baseAppLabelValue ELSE urlHashString]),
   data   |-> probe,
   rv     |-> 0]

\* the ConfigMap KubernetesProbeStore.CreateProbe submits
K8sNewConfigMap(probe, urlHashString) ==
  [labels |-> Overlay(probe.labels, K8sSystemLabels(probe, urlHashString)),
   data   |-> probe,
   rv     |-> 0]

\* variant: the status label is not brought up to date
K8sUpdatedConfigMap_StaleStatusLabel(cm, probe) ==
  [labels |-> Overlay(Overlay(cm.labels, probe.labels),
                      Lbl(baseAppLabelKey, baseAppLabelValue)),
   data   |-> probe,
   rv     |-> cm.rv]

\* variant: the payload is rebuilt without the URL
K8sUpdatedConfigMap_UrlDropped(cm, probe) ==
  [labels |-> Overlay(Overlay(cm.labels, probe.labels),
                      [k \in {baseAppLabelKey, probeStatusLabelKey} |->
                          IF k = baseAppLabelKey THEN baseAppLabelValue
                          ELSE probe.status]),
   data   |-> [probe EXCEPT !.static_url = ""],
   rv     |-> cm.rv]

\* variant: the labels of the fetched ConfigMap are replaced, not overlaid
K8sUpdatedConfigMap_LabelsReplaced(cm, probe) ==
  [labels |-> Overlay(probe.labels,
                      [k \in {baseAppLabelKey, probeStatusLabelKey} |->
                          IF k = baseAppLabelKey THEN baseAppLabelValue
                          ELSE probe.status]),
   data   |-> probe,
   rv     |-> cm.rv]

\* the ConfigMap KubernetesProbeStore.UpdateProbe submits, from the one it fetched
K8sUpdatedConfigMap(cm, probe) ==
  [labels |-> Overlay(Overlay(cm.labels, probe.labels),
                      [k \in {baseAppLabelKey, probeStatusLabelKey} |->
                          IF k = baseAppLabelKey THEN baseAppLabelValue
                          ELSE probe.status]),
   data   |-> probe,
   rv     |-> cm.rv]

\* variant: only the status label changes, the payload keeps its status
K8sTerminatingConfigMap_LabelOnly(cm) ==
  [labels |-> Overlay(cm.labels, Lbl(probeStatusLabelKey, Terminating)),
   data   |-> cm.data,
   rv     |-> cm.rv]

\* the ConfigMap KubernetesProbeStore.DeleteProbe submits for an active probe
K8sTerminatingConfigMap(cm) ==
  [labels |-> Overlay(cm.labels, Lbl(probeStatusLabelKey, Terminating)),
   data   |-> [cm.data EXCEPT !.status = Terminating],
   rv     |-> cm.rv]

\* variant: a failed probe is left in place
DeleteDecision_FailedKept(status) ==
  IF status = Pending THEN "remove"
  ELSE IF status = Active THEN "terminate"
  ELSE IF status = Terminating THEN "noop"
  ELSE IF status = Failed THEN "noop"
  ELSE "remove"

\* the branch of the switch in DeleteProbe: "remove", "terminate" or "noop"
DeleteDecision(status) ==
  IF status = Pending THEN "remove"
  ELSE IF status = Active THEN "terminate"
  ELSE IF status = Terminating THEN "noop"
  ELSE IF status = Failed THEN "remove"
  ELSE "remove"

K8sProbeWithURLHashExists(urlHashString) ==
  \E i \in DOMAIN configMaps :
      HasLabel(configMaps[i].labels, probeURLHashLabelKey, urlHashString)

\* variant: the Update is sent without the fetched resourceVersion
K8sUpdateAccepted_Unconditional(cm) == cm.data.id \in DOMAIN configMaps

\* the API server's Update: optimistic concurrency on metadata.resourceVersion
K8sUpdateAccepted(cm) ==
  /\ cm.data.id \in DOMAIN configMaps
  /\ configMaps[cm.data.id].rv = cm.rv

\* ------------------------------------------------------- local probe store
\* the entries of the store's directory: <id>.json and <id>.json.tmp, each
\* given as the id and filepath.Ext of the name
DirEntries ==
  {<<i, ".json">> : i \in DOMAIN files} \cup {<<i, ".tmp">> : i \in DOMAIN tmp}

\* os.ReadFile of an entry
ReadFile(entry) == IF entry[2] = ".json" THEN files[entry[1]] ELSE tmp[entry[1]]

\* variant: the walk reads every entry of the directory
WalkReads_AnyExt(ext) == TRUE

\* the walk callback returns at once unless filepath.Ext(path) is ".json"
WalkReads(ext) == ext = ".json"

\* the probes a walk of the directory obtains: the entries it reads and can
\* unmarshal
WalkedProbes ==
  {Unmarshal(ReadFile(e)) :
      e \in {d \in DirEntries : WalkReads(d[2]) /\ Unmarshalable(ReadFile(d))}}

LocalProbeWithURLHashExists(urlHashString) ==
  \E probe \in WalkedProbes :
      HasLabel(probe.labels, probeURLHashLabelKey, urlHashString)

\* the record LocalProbeStore.CreateProbe serializes
LocalNewRecord(probe, urlHashString) ==
  [probe EXCEPT !.labels =
      Overlay(probe.labels,
        [k \in {probeURLHashLabelKey, baseAppLabelKey, probeStatusLabelKey} |->
            IF k = probeURLHashLabelKey THEN urlHashString
            ELSE IF k = baseAppLabelKey THEN baseAppLabelValue
            ELSE probe.status])]

\* variant: the URL hash of the existing record is not carried over
LocalUpdatedRecord_HashNotKept(existingProbe, probe) ==
  [probe EXCEPT !.labels =
      Overlay(probe.labels,
        [k \in {baseAppLabelKey, probeStatusLabelKey} |->
            IF k = baseAppLabelKey THEN baseAppLabelValue ELSE probe.status])]

\* the record LocalProbeStore.UpdateProbe serializes, given the one on disk
LocalUpdatedRecord(existingProbe, probe) ==
  LET l1 == Overlay(probe.labels,
              [k \in {baseAppLabelKey, probeStatusLabelKey} |->
                  IF k = baseAppLabelKey THEN baseAppLabelValue ELSE probe.status])
      l2 == IF /\ probeURLHashLabelKey \in DOMAIN existingProbe.labels
               /\ probeURLHashLabelKey \notin DOMAIN l1
            THEN Overlay(l1, Lbl(probeURLHashLabelKey,
                                 existingProbe.labels[probeURLHashLabelKey]))
            ELSE l1
  IN [probe EXCEPT !.labels = l2]

\* the record LocalProbeStore.DeleteProbe writes back for an active probe
LocalTerminatingRecord(existingProbe) ==
  LocalUpdatedRecord(existingProbe, [existingProbe EXCEPT !.status = Terminating])

\* ----------------------------------------------------- the store in use
ProbeWithURLHashExists(urlHashString) ==
  IF backend = "k8s" THEN K8sProbeWithURLHashExists(urlHashString)
  ELSE LocalProbeWithURLHashExists(urlHashString)

Stored == IF backend = "k8s" THEN DOMAIN configMaps ELSE DOMAIN files

\* GetProbe(id) on a stored id fails when the file does not unmarshal
Readable(id) == backend = "local" => Unmarshalable(files[id])

\* what GetProbe(id) returns when it does not fail
GetProbe(id) ==
  IF backend = "k8s" THEN configMaps[id].data ELSE Unmarshal(files[id])

Remove(f, id) == [i \in (DOMAIN f) \ {id} |-> f[i]]
Put(f, id, v) == [i \in (DOMAIN f) \cup {id} |-> IF i = id THEN v ELSE f[i]]

\* variant: every error of the store is an internal failure
StatusOfError_Always500(err) == 500

\* the status the handlers answer with for an error of the store
\* (k8serrors.IsNotFound → 404, anything else → 500)
StatusOfError(err) == IF err = "NotFound" THEN 404 ELSE 500

Answer(p, op, code, id, probe, err, list) ==
  [proc |-> p, op |-> op, code |-> code, id |-> id, probe |-> probe,
   err |-> err, list |-> list]

Respond(p, op, code, id, probe) ==
  /\ resp' = Answer(p, op, code, id, probe, "", {})
  /\ req' = [req EXCEPT ![p] = IdleReq]

\* the store call failed with err and the handler answers code
Fail(p, op, code, id, err) ==
  /\ resp' = Answer(p, op, code, id, NilProbe, err, {})
  /\ req' = [req EXCEPT ![p] = IdleReq]

Continue(p, r) ==
  /\ req' = [req EXCEPT ![p] = r]
  /\ resp' = NoResp

\* ------------------------------------------------ the directory of the store
\* Other requests' descriptors of <id>.json.tmp after a rename of it onto
\* <id>.json: a descriptor follows its file, so one opened on the temp file
\* now refers to the final file, and one that referred to the final file
\* refers to a file without a name.
AfterRename(r, id) ==
  IF r.id # id THEN r
  ELSE IF r.fd = "tmp" THEN [r EXCEPT !.fd = "final"]
  ELSE IF r.fd = "final" THEN [r EXCEPT !.fd = "unlinked"]
  ELSE r

\* ... after <id>.json is removed or replaced by a new file
AfterRemoveFinal(r, id) ==
  IF r.id = id /\ r.fd = "final" THEN [r EXCEPT !.fd = "unlinked"] ELSE r

\* ... after <id>.json.tmp is removed
AfterRemoveTemp(r, id) ==
  IF r.id = id /\ r.fd = "tmp" THEN [r EXCEPT !.fd = "unlinked"] ELSE r

Idle(p) == req[p].op = "idle"
AllIdle == \A q \in Procs : req[q].op = "idle"

\* admission of a new request into slot p
Admit(p) ==
  /\ Idle(p)
  /\ IF mode = "sequential"
     THEN p = "p1" /\ AllIdle /\ ops < MaxSeqOps
     ELSE IF mode = "store"
     THEN p = "p1" /\ AllIdle /\ ops < MaxStoreOps
     ELSE IF mode = "disk"
     THEN p = "p1" /\ AllIdle /\ ops < MaxDiskOps
     ELSE IF mode = "monitor"
     THEN p = "p1" /\ AllIdle /\ ops < MaxMonOps
     ELSE mode = "interleaved" /\ ops < MaxOps
  /\ ops' = ops + 1

\* what no handler touches
Frame == UNCHANGED <<backend, mode, vOld, vNew, vRes, mon, ctxDone, ticker, probesTotal>>

\* the state after NewServer(store): an empty store, no request in flight
Start ==
  /\ backend \in Backends
  /\ configMaps = [i \in {} |-> NilCM]
  /\ files = [i \in {} |-> <<>>]
  /\ tmp = [i \in {} |-> <<>>]
  /\ nextId = 1
  /\ req = [p \in Procs |-> IdleReq]
  /\ resp = NoResp
  /\ ops = 0
  /\ vOld = EmptyLabels
  /\ vNew = EmptyLabels
  /\ vRes = "none"
  /\ mon = [pc |-> "start", listed |-> "none"]
  /\ ctxDone = FALSE
  /\ ticker = FALSE
  /\ probesTotal = [pair \in {} |-> 0]

Init == Start /\ mode = "interleaved"

\* ------------------------------------------------------- GET /probes/{id}
ServerGetProbeById(p, id) ==
  /\ Admit(p)
  /\ IF id \notin Stored
     THEN Fail(p, "get", StatusOfError("NotFound"), id, "NotFound")
     ELSE IF ~Readable(id)
     THEN Fail(p, "get", StatusOfError("Internal"), id, "Internal")
     ELSE Respond(p, "get", 200, id, GetProbe(id))
  /\ UNCHANGED <<configMaps, files, tmp, nextId>>
  /\ Frame

\* ------------------------------------------------------------ POST /probes
\* Server.CreateProbe up to the call of Store.CreateProbe
ServerCreateProbe(p, url, labels) ==
  /\ Admit(p)
  /\ IF ProbeWithURLHashExists(UrlHash(url))
     THEN /\ Respond(p, "create", 409, 0, NilProbe)
          /\ UNCHANGED nextId
     ELSE /\ nextId <= MaxId
          /\ LET probeToStore == [id |-> nextId, static_url |-> url,
                                  status |-> Pending, labels |-> labels]
             IN Continue(p, [IdleReq EXCEPT !.op = "create", !.pc = "store",
                               !.id = nextId, !.hash = UrlHash(url),
                               !.probe = probeToStore, !.arg = probeToStore])
          /\ nextId' = nextId + 1
  /\ UNCHANGED <<configMaps, files, tmp>>
  /\ Frame

\* KubernetesProbeStore.CreateProbe: one Create call
K8sCreateProbe(p) ==
  /\ backend = "k8s"
  /\ req[p].op = "create" /\ req[p].pc = "store"
  /\ IF req[p].id \in DOMAIN configMaps
     THEN /\ Fail(p, "create", 500, req[p].id, "AlreadyExists")
          /\ UNCHANGED configMaps
     ELSE /\ configMaps' = Put(configMaps, req[p].id,
                               K8sNewConfigMap(req[p].probe, req[p].hash))
          /\ Respond(p, "create", 201, req[p].id, req[p].probe)
  /\ UNCHANGED <<files, tmp, nextId, ops>>
  /\ Frame

\* LocalProbeStore.CreateProbe: input checks, the hash walk, the Stat and the
\* marshalling
LocalCreateProbeCheck(p) ==
  /\ backend = "local"
  /\ req[p].op = "create" /\ req[p].pc = "store"
  /\ IF req[p].id = 0 \/ req[p].hash = ""
     THEN Fail(p, "create", 500, req[p].id, "InvalidInput")
     ELSE IF LocalProbeWithURLHashExists(req[p].hash) \/ req[p].id \in DOMAIN files
     THEN Fail(p, "create", 500, req[p].id, "AlreadyExists")
     ELSE LET probe == LocalNewRecord(req[p].probe, req[p].hash)
          IN Continue(p, [req[p] EXCEPT !.pc = "open", !.probe = probe,
                                        !.data = MarshalIndent(probe)])
  /\ UNCHANGED <<configMaps, files, tmp, nextId, ops>>
  /\ Frame

\* os.WriteFile(tempPath, ...): open with O_CREATE and O_TRUNC
LocalWriteFileOpen(p) ==
  /\ backend = "local"
  /\ req[p].pc = "open"
  /\ tmp' = Put(tmp, req[p].id, <<>>)
  /\ Continue(p, [req[p] EXCEPT !.pc = "write", !.fd = "tmp"])
  /\ UNCHANGED <<configMaps, files, nextId, ops>>
  /\ Frame

\* os.WriteFile(tempPath, ...): the write through the descriptor, and close
LocalWriteFileWrite(p) ==
  /\ backend = "local"
  /\ req[p].pc = "write"
  /\ IF req[p].fd = "tmp"
     THEN /\ tmp' = Put(tmp, req[p].id, WriteAtStart(tmp[req[p].id], req[p].data))
          /\ UNCHANGED files
     ELSE IF req[p].fd = "final"
     THEN /\ files' = Put(files, req[p].id, WriteAtStart(files[req[p].id], req[p].data))
          /\ UNCHANGED tmp
     ELSE UNCHANGED <<files, tmp>>
  /\ Continue(p, [req[p] EXCEPT !.pc = "rename", !.fd = "none"])
  /\ UNCHANGED <<configMaps, nextId, ops>>
  /\ Frame

\* os.Rename(tempPath, filePath) and, when it fails, os.Remove(tempPath)
LocalFinalize(p) ==
  /\ backend = "local"
  /\ req[p].pc \in {"rename", "rmtemp"}
  /\ IF req[p].pc = "rename"
     THEN IF req[p].id \in DOMAIN tmp
          THEN /\ files' = Put(files, req[p].id, tmp[req[p].id])
               /\ tmp' = Remove(tmp, req[p].id)
               /\ req' = [q \in Procs |->
                            IF q = p THEN IdleReq ELSE AfterRename(req[q], req[p].id)]
               /\ resp' = Answer(p, req[p].op,
                                 IF req[p].op = "create" THEN 201 ELSE 200,
                                 req[p].id, req[p].probe, "", {})
          ELSE /\ Continue(p, [req[p] EXCEPT !.pc = "rmtemp"])
               /\ UNCHANGED <<files, tmp>>
     ELSE /\ tmp' = Remove(tmp, req[p].id)
          /\ req' = [q \in Procs |->
                       IF q = p THEN IdleReq ELSE AfterRemoveTemp(req[q], req[p].id)]
          /\ resp' = Answer(p, req[p].op, 500, req[p].id, NilProbe, "Internal", {})
          /\ UNCHANGED files
  /\ UNCHANGED <<configMaps, nextId, ops>>
  /\ Frame

\* ---------------------------------------------------- PATCH /probes/{id}
\* variant: the request's status is not written into the fetched record
ApplyStatus_Dropped(probe, status) == probe

\* the status written into the fetched record (request.Body.Status may be nil)
ApplyStatus(probe, status) ==
  IF status = NoStatus THEN probe ELSE [probe EXCEPT !.status = status]

\* variant: deleted is persisted like any other status
IsDeletionIntent_Never(status) == FALSE

\* variant: the status is compared with another spelling of the literal
IsDeletionIntent_OtherLiteral(status) == status = "Deleted"

\* "If status is being set to deleted, actually delete the probe"
IsDeletionIntent(status) == status = Deleted

\* Server.UpdateProbe up to its call of DeleteProbeStorage or UpdateProbe
ServerUpdateProbe(p, id, status, labels) ==
  /\ Admit(p)
  /\ IF id \notin Stored
     THEN Fail(p, "update", StatusOfError("NotFound"), id, "NotFound")
     ELSE IF ~Readable(id)
     THEN Fail(p, "update", StatusOfError("Internal"), id, "Internal")
     ELSE LET existingProbe == GetProbe(id) IN
          IF ~validateProtectedLabels(labels, existingProbe.labels)
          THEN Respond(p, "update", 403, id, NilProbe)
          ELSE LET merged == [existingProbe EXCEPT
                                !.labels = mergeRequestLabels(existingProbe.labels, labels)]
                   updated == ApplyStatus(merged, status)
               IN Continue(p, [IdleReq EXCEPT !.op = "update",
                                 !.pc = IF IsDeletionIntent(status) THEN "delstorage" ELSE "update",
                                 !.id = id, !.labels = labels, !.status = status,
                                 !.probe = updated, !.arg = updated])
  /\ UNCHANGED <<configMaps, files, tmp, nextId>>
  /\ Frame

\* Store.DeleteProbeStorage called by Server.UpdateProbe
UpdateDeleteProbeStorage(p) ==
  /\ req[p].op = "update" /\ req[p].pc = "delstorage"
  /\ IF req[p].id \notin Stored
     THEN /\ Fail(p, "update", 500, req[p].id, "NotFound")
          /\ UNCHANGED <<configMaps, files>>
     ELSE /\ IF backend = "k8s"
             THEN /\ configMaps' = Remove(configMaps, req[p].id)
                  /\ UNCHANGED files
                  /\ req' = [req EXCEPT ![p] = IdleReq]
             ELSE /\ files' = Remove(files, req[p].id)
                  /\ UNCHANGED configMaps
                  /\ req' = [q \in Procs |->
                               IF q = p THEN IdleReq
                               ELSE AfterRemoveFinal(req[q], req[p].id)]
          /\ resp' = Answer(p, "update", 200, req[p].id, req[p].probe, "", {})
  /\ UNCHANGED <<tmp, nextId, ops>>
  /\ Frame

\* KubernetesProbeStore.UpdateProbe: Get of the ConfigMap
K8sUpdateProbeGet(p) ==
  /\ backend = "k8s"
  /\ req[p].op = "update" /\ req[p].pc = "update"
  /\ IF req[p].id \notin DOMAIN configMaps
     THEN Fail(p, "update", 500, req[p].id, "NotFound")
     ELSE Continue(p, [req[p] EXCEPT !.pc = "put",
                          !.cm = K8sUpdatedConfigMap(configMaps[req[p].id], req[p].probe)])
  /\ UNCHANGED <<configMaps, files, tmp, nextId, ops>>
  /\ Frame

\* KubernetesProbeStore.UpdateProbe: Update of the ConfigMap
K8sUpdateProbePut(p) ==
  /\ backend = "k8s"
  /\ req[p].op = "update" /\ req[p].pc = "put"
  /\ IF K8sUpdateAccepted(req[p].cm)
     THEN /\ configMaps' = Put(configMaps, req[p].id,
                               [req[p].cm EXCEPT !.rv = @ + 1])
          /\ Respond(p, "update", 200, req[p].id, req[p].cm.data)
     ELSE /\ Fail(p, "update", 500, req[p].id,
                  IF req[p].id \in DOMAIN configMaps THEN "Conflict" ELSE "NotFound")
          /\ UNCHANGED configMaps
  /\ UNCHANGED <<files, tmp, nextId, ops>>
  /\ Frame

\* LocalProbeStore.UpdateProbe: input check, Stat, read of the existing file,
\* label injection and marshalling
LocalUpdateProbeRead(p) ==
  /\ backend = "local"
  /\ req[p].op = "update" /\ req[p].pc = "update"
  /\ IF req[p].id = 0
     THEN Fail(p, "update", 500, req[p].id, "InvalidInput")
     ELSE IF req[p].id \notin DOMAIN files
     THEN Fail(p, "update", 500, req[p].id, "NotFound")
     ELSE IF ~Unmarshalable(files[req[p].id])
     THEN Fail(p, "update", 500, req[p].id, "Internal")
     ELSE LET probe == LocalUpdatedRecord(Unmarshal(files[req[p].id]), req[p].probe)
          IN Continue(p, [req[p] EXCEPT !.pc = "open", !.probe = probe,
                                        !.data = MarshalIndent(probe)])
  /\ UNCHANGED <<configMaps, files, tmp, nextId, ops>>
  /\ Frame

\* --------------------------------------------------- DELETE /probes/{id}
NextPcOfDelete(status) ==
  IF DeleteDecision(status) = "remove" THEN "remove" ELSE "terminate"

\* KubernetesProbeStore.DeleteProbe: Get of the ConfigMap and the switch
K8sDeleteProbeGet(p, id) ==
  /\ backend = "k8s"
  /\ Admit(p)
  /\ IF id \notin DOMAIN configMaps
     THEN Fail(p, "delete", StatusOfError("NotFound"), id, "NotFound")
     ELSE LET cm == configMaps[id] IN
          IF DeleteDecision(cm.data.status) = "noop"
          THEN Respond(p, "delete", 204, id, NilProbe)
          ELSE Continue(p, [IdleReq EXCEPT !.op = "delete",
                              !.pc = NextPcOfDelete(cm.data.status),
                              !.id = id, !.probe = cm.data, !.cm = cm])
  /\ UNCHANGED <<configMaps, files, tmp, nextId>>
  /\ Frame

\* KubernetesProbeStore.DeleteProbe: DeleteProbeStorage (pending, failed, default)
K8sDeleteProbeRemove(p) ==
  /\ backend = "k8s"
  /\ req[p].op = "delete" /\ req[p].pc = "remove"
  /\ IF req[p].id \in DOMAIN configMaps
     THEN /\ configMaps' = Remove(configMaps, req[p].id)
          /\ Respond(p, "delete", 204, req[p].id, NilProbe)
     ELSE /\ Fail(p, "delete", StatusOfError("NotFound"), req[p].id, "NotFound")
          /\ UNCHANGED configMaps
  /\ UNCHANGED <<files, tmp, nextId, ops>>
  /\ Frame

\* KubernetesProbeStore.DeleteProbe: Update to terminating (active)
K8sDeleteProbeTerminate(p) ==
  /\ backend = "k8s"
  /\ req[p].op = "delete" /\ req[p].pc = "terminate"
  /\ IF K8sUpdateAccepted(req[p].cm)
     THEN /\ configMaps' = Put(configMaps, req[p].id,
                               [K8sTerminatingConfigMap(req[p].cm) EXCEPT !.rv = @ + 1])
          /\ Respond(p, "delete", 204, req[p].id, NilProbe)
     ELSE /\ Fail(p, "delete", 500, req[p].id,
                  IF req[p].id \in DOMAIN configMaps THEN "Conflict" ELSE "NotFound")
          /\ UNCHANGED configMaps
  /\ UNCHANGED <<files, tmp, nextId, ops>>
  /\ Frame

\* LocalProbeStore.DeleteProbe: read of the file and the switch on its status
LocalDeleteProbeRead(p, id) ==
  /\ backend = "local"
  /\ Admit(p)
  /\ IF id \notin DOMAIN files
     THEN Fail(p, "delete", StatusOfError("NotFound"), id, "NotFound")
     ELSE IF ~Unmarshalable(files[id])
     THEN Fail(p, "delete", StatusOfError("Internal"), id, "Internal")
     ELSE LET probe == Unmarshal(files[id]) IN
          IF DeleteDecision(probe.status) = "noop"
          THEN Respond(p, "delete", 204, id, NilProbe)
          ELSE Continue(p, [IdleReq EXCEPT !.op = "delete",
                              !.pc = NextPcOfDelete(probe.status),
                              !.id = id, !.probe = probe])
  /\ UNCHANGED <<configMaps, files, tmp, nextId>>
  /\ Frame

\* LocalProbeStore.DeleteProbe: removal of the file (pending, failed, default)
LocalDeleteProbeRemove(p) ==
  /\ backend = "local"
  /\ req[p].op = "delete" /\ req[p].pc = "remove"
  /\ IF req[p].id \in DOMAIN files
     THEN /\ files' = Remove(files, req[p].id)
          /\ req' = [q \in Procs |->
                       IF q = p THEN IdleReq ELSE AfterRemoveFinal(req[q], req[p].id)]
          /\ resp' = Answer(p, "delete", 204, req[p].id, NilProbe, "", {})
     ELSE /\ Fail(p, "delete", StatusOfError("NotFound"), req[p].id, "NotFound")
          /\ UNCHANGED files
  /\ UNCHANGED <<configMaps, tmp, nextId, ops>>
  /\ Frame

\* LocalProbeStore.DeleteProbe: write back as terminating (active)
LocalDeleteProbeTerminate(p) ==
  /\ backend = "local"
  /\ req[p].op = "delete" /\ req[p].pc = "terminate"
  /\ IF req[p].id \in DOMAIN files
     THEN /\ files' = Put(files, req[p].id,
                          MarshalIndent(LocalTerminatingRecord(req[p].probe)))
          /\ req' = [q \in Procs |->
                       IF q = p THEN IdleReq ELSE AfterRemoveFinal(req[q], req[p].id)]
          /\ resp' = Answer(p, "delete", 204, req[p].id, NilProbe, "", {})
     ELSE /\ Fail(p, "delete", StatusOfError("NotFound"), req[p].id, "NotFound")
          /\ UNCHANGED files
  /\ UNCHANGED <<configMaps, tmp, nextId, ops>>
  /\ Frame

\* ------------------------------------------------------------ GET /probes
\* A selector string is the sequence of its comma-separated requirements;
\* labels.Parse rejects a requirement whose key is empty.
Requirement(k, v) == [k |-> k, v |-> v]

labelsParseFails(selector) == \E i \in 1..Len(selector) : selector[i].k = ""

\* sel.Matches(labels)
Matches(selector, labels) ==
  \A i \in 1..Len(selector) : HasLabel(labels, selector[i].k, selector[i].v)

baseSelector == <<Requirement(baseAppLabelKey, baseAppLabelValue)>>

\* selectors a client sends with GET /probes (<<>>: none, or the empty string)
CallerSelectors ==
  { <<>>,
    <<Requirement("env", "prod")>>,
    <<Requirement("env", "test")>>,
    <<Requirement("", "prod")>> }

\* variant: the caller's selector replaces the base selector
FinalSelector_CallerOnly(userSelector) ==
  IF userSelector = <<>> THEN baseSelector ELSE userSelector

\* finalSelector: the base selector, and the caller's appended after a comma
FinalSelector(userSelector) ==
  IF userSelector = <<>> THEN baseSelector ELSE baseSelector \o userSelector

\* Server.ListProbes up to the call of Store.ListProbes
ServerListProbes(p, userSelector) ==
  /\ Admit(p)
  /\ IF userSelector # <<>> /\ labelsParseFails(userSelector)
     THEN Respond(p, "list", 400, 0, NilProbe)
     ELSE Continue(p, [IdleReq EXCEPT !.op = "list", !.pc = "list",
                         !.sel = FinalSelector(userSelector)])
  /\ UNCHANGED <<configMaps, files, tmp, nextId>>
  /\ Frame

\* the probes KubernetesProbeStore.ListProbes returns: the payloads of the
\* ConfigMaps whose labels match
K8sListResult(selector) ==
  {configMaps[i].data : i \in {j \in DOMAIN configMaps :
                                  Matches(selector, configMaps[j].labels)}}

\* variant: a file that cannot be read or unmarshalled ends the listing
LocalListResult_BadFileAborts(selector) ==
  IF \E d \in DirEntries : WalkReads(d[2]) /\ ~Unmarshalable(ReadFile(d))
  THEN {}
  ELSE {probe \in WalkedProbes : Matches(selector, probe.labels)}

\* the probes LocalProbeStore.ListProbes returns: the files that unmarshal
\* and whose labels match
LocalListResult(selector) ==
  {probe \in WalkedProbes : Matches(selector, probe.labels)}

\* KubernetesProbeStore.ListProbes: one List call
K8sListProbes(p) ==
  /\ backend = "k8s"
  /\ req[p].op = "list" /\ req[p].pc = "list"
  /\ IF labelsParseFails(req[p].sel)
     THEN Fail(p, "list", 500, 0, "Internal")
     ELSE /\ resp' = Answer(p, "list", 200, 0, NilProbe, "", K8sListResult(req[p].sel))
          /\ req' = [req EXCEPT ![p] = IdleReq]
  /\ UNCHANGED <<configMaps, files, tmp, nextId, ops>>
  /\ Frame

\* LocalProbeStore.ListProbes: the walk of the directory
LocalListProbes(p) ==
  /\ backend = "local"
  /\ req[p].op = "list" /\ req[p].pc = "list"
  /\ IF labelsParseFails(req[p].sel)
     THEN Fail(p, "list", 500, 0, "Internal")
     ELSE /\ resp' = Answer(p, "list", 200, 0, NilProbe, "", LocalListResult(req[p].sel))
          /\ req' = [req EXCEPT ![p] = IdleReq]
  /\ UNCHANGED <<configMaps, files, tmp, nextId, ops>>
  /\ Frame

\* ------------------------------------------------------- specifications
Begin(p) ==
  \/ \E id \in Ids : ServerGetProbeById(p, id)
  \/ \E userSelector \in CallerSelectors : ServerListProbes(p, userSelector)
  \/ \E url \in Urls, labels \in CreateLabelSets : ServerCreateProbe(p, url, labels)
  \/ \E id \in Ids, status \in UpdateStatuses, labels \in UpdateLabelSets :
        ServerUpdateProbe(p, id, status, labels)
  \/ \E id \in Ids : K8sDeleteProbeGet(p, id)
  \/ \E id \in Ids : LocalDeleteProbeRead(p, id)

Step(p) ==
  \/ K8sListProbes(p)
  \/ LocalListProbes(p)
  \/ K8sCreateProbe(p)
  \/ LocalCreateProbeCheck(p)
  \/ LocalWriteFileOpen(p)
  \/ LocalWriteFileWrite(p)
  \/ LocalFinalize(p)
  \/ UpdateDeleteProbeStorage(p)
  \/ K8sUpdateProbeGet(p)
  \/ K8sUpdateProbePut(p)
  \/ LocalUpdateProbeRead(p)
  \/ K8sDeleteProbeRemove(p)
  \/ K8sDeleteProbeTerminate(p)
  \/ LocalDeleteProbeRemove(p)
  \/ LocalDeleteProbeTerminate(p)

Next == \E p \in Procs : Begin(p) \/ Step(p)

Spec == Init /\ [][Next]_vars

\* requests one at a time: a request begins only when none is in flight
SeqInit == Start /\ mode = "sequential"

SpecSeq == SeqInit /\ [][Next]_vars

\* ------------------------------------------- the probe store on its own
\* Calls made on the ProbeStorage interface directly, one at a time, with
\* arguments the service would not pass (an empty id, any urlHashString).
StoreIds == 0..MaxId
StoreHashes == {"", "h1"}
StoreLabelSets ==
  {EmptyLabels, Lbl("env", "prod"), Lbl(probeURLHashLabelKey, "h2"),
   Lbl(baseAppLabelKey, "x")}
StoreProbes ==
  {[id |-> i, static_url |-> "u1", status |-> s, labels |-> l] :
      i \in StoreIds, s \in {Pending, Active}, l \in StoreLabelSets}
StoreSelectors ==
  {<<>>, <<Requirement("env", "prod")>>, <<Requirement("", "prod")>>}

StoreCreateProbe(p, probe, urlHashString) ==
  /\ Admit(p)
  /\ Continue(p, [IdleReq EXCEPT !.op = "create", !.pc = "store",
                    !.id = probe.id, !.hash = urlHashString,
                    !.probe = probe, !.arg = probe])
  /\ UNCHANGED <<configMaps, files, tmp, nextId>>
  /\ Frame

StoreUpdateProbe(p, probe) ==
  /\ Admit(p)
  /\ Continue(p, [IdleReq EXCEPT !.op = "update", !.pc = "update",
                    !.id = probe.id, !.probe = probe, !.arg = probe])
  /\ UNCHANGED <<configMaps, files, tmp, nextId>>
  /\ Frame

StoreListProbes(p, selector) ==
  /\ Admit(p)
  /\ Continue(p, [IdleReq EXCEPT !.op = "list", !.pc = "list", !.sel = selector])
  /\ UNCHANGED <<configMaps, files, tmp, nextId>>
  /\ Frame

StoreBegin(p) ==
  \/ \E probe \in StoreProbes, urlHashString \in StoreHashes :
        StoreCreateProbe(p, probe, urlHashString)
  \/ \E probe \in StoreProbes : StoreUpdateProbe(p, probe)
  \/ \E selector \in StoreSelectors : StoreListProbes(p, selector)
  \/ \E id \in Ids : K8sDeleteProbeGet(p, id)
  \/ \E id \in Ids : LocalDeleteProbeRead(p, id)

StoreStep(p) ==
  \/ K8sListProbes(p)
  \/ LocalListProbes(p)
  \/ K8sCreateProbe(p)
  \/ LocalCreateProbeCheck(p)
  \/ LocalWriteFileOpen(p)
  \/ LocalWriteFileWrite(p)
  \/ LocalFinalize(p)
  \/ K8sUpdateProbeGet(p)
  \/ K8sUpdateProbePut(p)
  \/ LocalUpdateProbeRead(p)
  \/ K8sDeleteProbeRemove(p)
  \/ K8sDeleteProbeTerminate(p)
  \/ LocalDeleteProbeRemove(p)
  \/ LocalDeleteProbeTerminate(p)

NextStore == \E p \in Procs : StoreBegin(p) \/ StoreStep(p)

StoreInit == Start /\ mode = "store"

SpecStore == StoreInit /\ [][NextStore]_vars

\* ------------------------------------ the local store and a faulty directory
\* The store calls of SpecStore, one at a time, with two events of the
\* environment: the process stops inside a write, and a file that is not a
\* record appears under a .json name.

\* contents that do not unmarshal: an empty file, and the first block of a
\* longer document
BadContents ==
  {<<>>, SubSeq(MarshalIndent(LocalNewRecord(NilProbe, "h1")), 1, 2)}

\* the process stops after os.WriteFile(tempPath) has returned and before
\* os.Rename; the call never returns, the directory stays as it is
Crash(p) ==
  /\ mode = "disk" /\ backend = "local"
  /\ req[p].op \in {"create", "update"} /\ req[p].pc = "rename"
  /\ req' = [q \in Procs |-> IdleReq]
  /\ resp' = NoResp
  /\ UNCHANGED <<configMaps, files, tmp, nextId, ops>>
  /\ Frame

\* something other than the store writes data under the name <id>.json
WriteBadFile(id, data) ==
  /\ mode = "disk" /\ backend = "local"
  /\ AllIdle /\ ops < MaxDiskOps
  /\ ops' = ops + 1
  /\ files' = Put(files, id, data)
  /\ resp' = NoResp
  /\ UNCHANGED <<configMaps, tmp, nextId, req>>
  /\ Frame

NextDisk ==
  \/ \E p \in Procs : StoreBegin(p) \/ StoreStep(p)
  \/ \E p \in Procs : Crash(p)
  \/ \E id \in Ids, data \in BadContents : WriteBadFile(id, data)

DiskInit == Start /\ mode = "disk"

SpecDisk == DiskInit /\ [][NextDisk]_vars

\* ------------------------------------------------------ MonitorProbes
\* The monitoring goroutine beside the request handlers, which take their
\* requests one at a time; the requests are the ones that add and remove
\* records: POST /probes and DELETE /probes/{id}.
PrivateOf(probe) ==
  IF HasLabel(probe.labels, privateProbeLabelKey, "true") THEN "true" ELSE "false"

\* counts[state][private] of updateProbeMetrics: an entry only for the pairs
\* some listed probe has
Counts(probes) ==
  [pair \in {<<probe.status, PrivateOf(probe)>> : probe \in probes} |->
      Cardinality({probe \in probes : <<probe.status, PrivateOf(probe)>> = pair})]

\* what Store.ListProbes(ctx, "") returns when it does not fail
ListedForMetrics ==
  IF backend = "k8s" THEN K8sListResult(<<>>) ELSE LocalListResult(<<>>)

\* variant: a failed listing clears the gauge
GaugeAfterCycle_ErrorClears(total, listErr, probes) ==
  IF listErr THEN [pair \in {} |-> 0] ELSE Overlay(total, Counts(probes))

\* the gauge after updateProbeMetrics: untouched when the listing failed,
\* else SetProbesTotal for every pair counted
GaugeAfterCycle(total, listErr, probes) ==
  IF listErr THEN total ELSE Overlay(total, Counts(probes))

\* MonitorProbes up to its first call of updateProbeMetrics
MonitorStart ==
  /\ mode = "monitor" /\ mon.pc = "start"
  /\ mon' = [mon EXCEPT !.pc = "cycle"]
  /\ UNCHANGED <<backend, configMaps, files, tmp, nextId, req, resp, ops, mode,
                 vOld, vNew, vRes, ctxDone, ticker, probesTotal>>

\* updateProbeMetrics; listErr: Store.ListProbes returned an error, which a
\* client-go call does whenever its context is cancelled
updateProbeMetrics(listErr) ==
  /\ mode = "monitor" /\ mon.pc = "cycle"
  /\ (backend = "k8s" /\ ctxDone) => listErr
  /\ probesTotal' = GaugeAfterCycle(probesTotal, listErr, ListedForMetrics)
  /\ mon' = [pc |-> "select", listed |-> IF listErr THEN "error" ELSE "ok"]
  /\ UNCHANGED <<backend, configMaps, files, tmp, nextId, req, resp, ops, mode,
                 vOld, vNew, vRes, ctxDone, ticker>>

\* the ticker fires; a tick already waiting makes this one be dropped
Tick ==
  /\ mode = "monitor" /\ mon.pc \in {"cycle", "select"}
  /\ ~ticker
  /\ ticker' = TRUE
  /\ UNCHANGED <<backend, configMaps, files, tmp, nextId, req, resp, ops, mode,
                 vOld, vNew, vRes, mon, ctxDone, probesTotal>>

\* select: case <-ticker.C
MonitorTick ==
  /\ mode = "monitor" /\ mon.pc = "select"
  /\ ticker
  /\ ticker' = FALSE
  /\ mon' = [mon EXCEPT !.pc = "cycle"]
  /\ UNCHANGED <<backend, configMaps, files, tmp, nextId, req, resp, ops, mode,
                 vOld, vNew, vRes, ctxDone, probesTotal>>

\* variant: the loop is left without looking at the context
MonitorDone_Unconditional ==
  /\ mode = "monitor" /\ mon.pc = "select"
  /\ mon' = [mon EXCEPT !.pc = "returned"]
  /\ UNCHANGED <<backend, configMaps, files, tmp, nextId, req, resp, ops, mode,
                 vOld, vNew, vRes, ctxDone, ticker, probesTotal>>

\* select: case <-ctx.Done(), and the return
MonitorDone ==
  /\ mode = "monitor" /\ mon.pc = "select"
  /\ ctxDone
  /\ mon' = [mon EXCEPT !.pc = "returned"]
  /\ UNCHANGED <<backend, configMaps, files, tmp, nextId, req, resp, ops, mode,
                 vOld, vNew, vRes, ctxDone, ticker, probesTotal>>

\* the context is cancelled (shutdown)
Cancel ==
  /\ mode = "monitor" /\ ~ctxDone
  /\ ctxDone' = TRUE
  /\ UNCHANGED <<backend, configMaps, files, tmp, nextId, req, resp, ops, mode,
                 vOld, vNew, vRes, mon, ticker, probesTotal>>

RequestsBesideMonitor(p) ==
  \/ \E url \in Urls, labels \in CreateLabelSets : ServerCreateProbe(p, url, labels)
  \/ K8sCreateProbe(p)
  \/ LocalCreateProbeCheck(p)
  \/ LocalWriteFileOpen(p)
  \/ LocalWriteFileWrite(p)
  \/ LocalFinalize(p)
  \/ \E id \in Ids : K8sDeleteProbeGet(p, id)
  \/ K8sDeleteProbeRemove(p)
  \/ \E id \in Ids : LocalDeleteProbeRead(p, id)
  \/ LocalDeleteProbeRemove(p)

NextMonitor ==
  \/ \E p \in Procs : RequestsBesideMonitor(p)
  \/ MonitorStart
  \/ \E listErr \in BOOLEAN : updateProbeMetrics(listErr)
  \/ Tick
  \/ MonitorTick
  \/ MonitorDone
  \/ Cancel

MonitorInit == Start /\ mode = "monitor"

SpecMonitor == MonitorInit /\ [][NextMonitor]_vars

\* The goroutine is scheduled (weak fairness of its steps), and a select with
\* several ready cases picks one of them at random, so a case that is ready
\* every time the select is reached is taken in the end (strong fairness).
SpecMonitorLive ==
  /\ SpecMonitor
  /\ WF_vars(MonitorStart)
  /\ WF_vars(\E listErr \in BOOLEAN : updateProbeMetrics(listErr))
  /\ WF_vars(MonitorTick)
  /\ SF_vars(MonitorDone)

\* label sets handed to validateProtectedLabels on its own
PolicyKeys == ProtectedLabelKeys \cup {"env"}
PolicyValues == {"a", "b"}
PolicyLabelSets == UNION {[D -> PolicyValues] : D \in SUBSET PolicyKeys}

InitLabels ==
  /\ backend = "k8s"
  /\ configMaps = [i \in {} |-> NilCM]
  /\ files = [i \in {} |-> <<>>]
  /\ tmp = [i \in {} |-> <<>>]
  /\ nextId = 1
  /\ req = [p \in Procs |-> IdleReq]
  /\ resp = NoResp
  /\ ops = 0
  /\ mode = "policy"
  /\ vOld \in PolicyLabelSets
  /\ vNew \in PolicyLabelSets
  /\ vRes = "none"
  /\ mon = [pc |-> "start", listed |-> "none"]
  /\ ctxDone = FALSE
  /\ ticker = FALSE
  /\ probesTotal = [pair \in {} |-> 0]

Validate ==
  /\ vRes = "none"
  /\ vRes' = IF validateProtectedLabels(vNew, vOld) THEN "ok" ELSE "forbidden"
  /\ UNCHANGED <<backend, configMaps, files, tmp, nextId, req, resp, ops, mode, vOld, vNew>>
  /\ UNCHANGED monVars

SpecLabels == InitLabels /\ [][Validate]_vars

\* ================================================================ claims
SystemLabelKeys == {baseAppLabelKey, probeStatusLabelKey, probeURLHashLabelKey}

\* the labels a record carries besides the three system labels
UserLabels(labels) == [k \in (DOMAIN labels) \ SystemLabelKeys |-> labels[k]]

\* the labels the store files a record under: the ConfigMap's labels on the
\* ConfigMap store, the record's own labels on the local store
IndexLabels(id) ==
  IF backend = "k8s" THEN configMaps[id].labels ELSE Unmarshal(files[id]).labels

HasSystemLabels(labels, status, urlHashString) ==
  /\ HasLabel(labels, baseAppLabelKey, baseAppLabelValue)
  /\ HasLabel(labels, probeStatusLabelKey, status)
  /\ HasLabel(labels, probeURLHashLabelKey, urlHashString)

\* C1: in every reachable state, interleaved Create requests included, no two
\* stored records have the same static_url or the same url-hash label.
C1_NoTwoRecordsPerUrl ==
  \A i \in Stored : \A j \in Stored :
     i # j =>
       /\ GetProbe(i).static_url # GetProbe(j).static_url
       /\ ~(\E h \in {UrlHash(u) : u \in Urls} :
              /\ HasLabel(IndexLabels(i), probeURLHashLabelKey, h)
              /\ HasLabel(IndexLabels(j), probeURLHashLabelKey, h))

\* C2: with no other request in flight, a Create whose static_url is that of a
\* stored record answers 409 and leaves every stored record as it was.
C2_DuplicateCreateIs409 ==
  [][\A url \in Urls : \A labels \in CreateLabelSets :
        (/\ ServerCreateProbe("p1", url, labels)
         /\ \E i \in Stored : GetProbe(i).static_url = url)
        => (resp'.code = 409 /\ UNCHANGED storeVars)]_vars

\* C3 (as claimed): after a successful Create, on either store, Get with the
\* returned id gives the same id and static_url, status pending, and labels
\* that contain the three system labels.
C3_GetAfterCreateHasSystemLabels ==
  (resp.op = "create" /\ resp.code = 201) =>
     /\ resp.id \in Stored
     /\ GetProbe(resp.id).id = resp.probe.id
     /\ GetProbe(resp.id).static_url = resp.probe.static_url
     /\ GetProbe(resp.id).status = Pending
     /\ HasSystemLabels(GetProbe(resp.id).labels, Pending,
                        UrlHash(resp.probe.static_url))

\* C3 (amended): after a successful Create, Get with the returned id gives the
\* same id and static_url and status pending; the three system labels are
\* among the record's labels on the local store, and among the ConfigMap's
\* labels on the ConfigMap store, where the record keeps the caller's labels.
C3_GetAfterCreate ==
  (resp.op = "create" /\ resp.code = 201) =>
     /\ resp.id \in Stored
     /\ resp.id = resp.probe.id
     /\ GetProbe(resp.id).id = resp.probe.id
     /\ GetProbe(resp.id).static_url = resp.probe.static_url
     /\ GetProbe(resp.id).status = Pending
     /\ HasSystemLabels(IndexLabels(resp.id), Pending,
                        UrlHash(resp.probe.static_url))
     /\ backend = "k8s" => GetProbe(resp.id).labels \in CreateLabelSets

C3_Witness ==
  /\ backend = "k8s"
  /\ resp.op = "create" /\ resp.code = 201
  /\ resp.id \in Stored
  /\ "env" \in DOMAIN GetProbe(resp.id).labels

\* C4: DeleteProbe on a stored record whose status is pending, failed or
\* outside the enumeration removes the record and reports success, so that
\* GetProbe with that id then finds nothing.
C4_DeleteRemovesUnclaimed ==
  [][/\ \A id \in Ids :
          (/\ K8sDeleteProbeGet("p1", id) \/ LocalDeleteProbeRead("p1", id)
           /\ id \in Stored
           /\ GetProbe(id).status \notin {Active, Terminating})
          => (req'["p1"].op = "delete" /\ req'["p1"].pc = "remove"
              /\ req'["p1"].id = id /\ UNCHANGED storeVars)
     /\ (req["p1"].op = "delete" /\ req["p1"].pc = "remove")
          => (/\ resp'.op = "delete" /\ resp'.code = 204
              /\ req["p1"].id \notin Stored'
              /\ \A i \in Stored \ {req["p1"].id} :
                    i \in Stored' /\ GetProbe(i)' = GetProbe(i))]_vars

C4_Witness ==
  /\ mode = "sequential"
  /\ resp.op = "delete" /\ resp.code = 204
  /\ resp.id \notin Stored
  /\ Stored # {}

C6_DeletedUpdateRemoves ==
  [][/\ \A p \in Procs : \A id \in Ids : \A labels \in UpdateLabelSets :
          (/\ ServerUpdateProbe(p, id, Deleted, labels)
           /\ id \in Stored /\ Readable(id)
           /\ validateProtectedLabels(labels, GetProbe(id).labels))
          => (req'[p].op = "update" /\ req'[p].pc = "delstorage"
              /\ req'[p].id = id /\ UNCHANGED storeVars)
     /\ \A p \in Procs : \A id \in Ids :
          (/\ req[p].op = "update" /\ req[p].pc = "delstorage" /\ req[p].id = id
           /\ resp'.proc = p /\ resp'.code = 200)
          => id \notin Stored'
     /\ \A i \in Ids : i \in Stored' => GetProbe(i)'.status # Deleted]_vars

C6_Witness ==
  /\ mode = "interleaved"
  /\ resp.op = "update" /\ resp.code = 200
  /\ resp.probe.status = Deleted
  /\ resp.id \notin Stored

C9_ProtectedValueChange ==
  vRes # "none" =>
    \A k \in ProtectedLabelKeys \cap DOMAIN vOld :
       /\ (k \in DOMAIN vNew /\ vNew[k] # vOld[k]) => vRes = "forbidden"
       /\ (/\ k \in DOMAIN vNew /\ vNew[k] = vOld[k]
           /\ (DOMAIN vNew) \cap ProtectedLabelKeys = {k}) => vRes = "ok"

C9_Witness ==
  /\ vRes = "ok"
  /\ HasLabel(vOld, privateProbeLabelKey, "a")
  /\ HasLabel(vNew, privateProbeLabelKey, "a")

C12_UrlHashLabelKept ==
  [][\A i \in StoreIds :
        /\ (i \notin Stored /\ i \in Stored')
             => HasLabel(IndexLabels(i)', probeURLHashLabelKey, req["p1"].hash)
        /\ (/\ i \in Stored /\ i \in Stored'
            /\ ~(/\ req["p1"].op = "update" /\ req["p1"].id = i
                 /\ probeURLHashLabelKey \in DOMAIN req["p1"].arg.labels))
             => /\ probeURLHashLabelKey \in DOMAIN IndexLabels(i)'
                /\ IndexLabels(i)'[probeURLHashLabelKey]
                      = IndexLabels(i)[probeURLHashLabelKey]]_vars

\* an UpdateProbe without the key has just returned, the record is still
\* filed under the hash of its creation
C12_Witness ==
  /\ mode = "store" /\ backend = "local"
  /\ resp.op = "update" /\ resp.code = 200
  /\ resp.id \in Stored
  /\ resp.probe.status = Active
  /\ "env" \in DOMAIN resp.probe.labels
  /\ HasLabel(IndexLabels(resp.id), probeURLHashLabelKey, "h1")

RecordsMatching(selector) ==
  {GetProbe(i) : i \in {j \in Stored : Readable(j) /\ Matches(selector, GetProbe(j).labels)}}

\* C14: ListProbes with a selector returns exactly the stored records whose
\* labels have the selected value for the selected key, and the empty list
\* when there is none, also after UpdateProbe has changed labels.
C14_ListReturnsExactlyMatching ==
  [][\A selector \in StoreSelectors :
        (/\ req["p1"].op = "list" /\ req["p1"].sel = selector
         /\ ~labelsParseFails(selector)
         /\ resp'.op = "list")
        => (/\ resp'.code = 200 /\ resp'.err = ""
            /\ resp'.list = RecordsMatching(selector))]_vars

\* C15: List with a caller selector that does not parse answers 400 and makes
\* no store call; otherwise the store is queried with the base selector
\* followed by the caller's, and every probe returned is stored under the app
\* label and under the caller's labels.
C15_ListComposesBaseSelector ==
  [][/\ \A p \in Procs : \A userSelector \in CallerSelectors :
          ServerListProbes(p, userSelector)
          => IF labelsParseFails(userSelector)
             THEN /\ resp'.proc = p /\ resp'.code = 400
                  /\ req'[p] = IdleReq
                  /\ UNCHANGED <<configMaps, files, tmp>>
             ELSE /\ req'[p].pc = "list"
                  /\ \A labels \in [SystemLabelKeys \cup {"env"} -> {"prod", "test", baseAppLabelValue}] :
                        Matches(req'[p].sel, labels)
                          <=> (Matches(baseSelector, labels) /\ Matches(userSelector, labels))
     /\ \A p \in Procs : \A userSelector \in CallerSelectors :
          (/\ req[p].op = "list" /\ req[p].sel = FinalSelector(userSelector)
           /\ ~labelsParseFails(userSelector)
           /\ resp'.proc = p)
          => (/\ resp'.code = 200
              /\ \A probe \in resp'.list :
                    \E i \in Stored :
                       /\ GetProbe(i) = probe
                       /\ HasLabel(IndexLabels(i), baseAppLabelKey, baseAppLabelValue)
                       /\ Matches(userSelector, IndexLabels(i)))]_vars

\* a List with a selector has returned some of the stored probes, not all
C15_Witness ==
  /\ mode = "interleaved"
  /\ resp.op = "list" /\ resp.code = 200
  /\ resp.list # {}
  /\ Cardinality(resp.list) < Cardinality(Stored)

\* C16: the store's CreateProbe fails with an input error when probe.id is
\* empty and with AlreadyExists when a stored record is filed under the given
\* urlHash, and then writes nothing.
C16_CreateProbeRejects ==
  [][(/\ req["p1"].op = "create" /\ req["p1"].pc = "store"
      /\ req'["p1"] # req["p1"]
      /\ req["p1"].id = 0 \/ ProbeWithURLHashExists(req["p1"].hash))
     => (/\ resp'.op = "create"
         /\ resp'.err = IF req["p1"].id = 0 THEN "InvalidInput" ELSE "AlreadyExists"
         /\ UNCHANGED <<configMaps, files, tmp>>)]_vars

\* C17: every step of an Update that is not a deletion keeps the set of
\* stored records, the id and static_url of each, and everything of the
\* records other than its target.
C17_UpdateKeepsIdAndUrl ==
  [][(req["p1"].op = "update" /\ req["p1"].pc # "delstorage")
     => (/\ Stored' = Stored
         /\ \A i \in Stored :
               /\ GetProbe(i)'.id = GetProbe(i).id
               /\ GetProbe(i)'.static_url = GetProbe(i).static_url
               /\ i # req["p1"].id
                    => (GetProbe(i)' = GetProbe(i) /\ IndexLabels(i)' = IndexLabels(i)))]_vars

C17_Witness ==
  /\ mode = "sequential"
  /\ resp.op = "update" /\ resp.code = 200
  /\ resp.id \in Stored
  /\ Cardinality(Stored) = 2
  /\ GetProbe(resp.id).status = Failed
  /\ GetProbe(resp.id).static_url = "u2"

\* C18: on the ConfigMap store, an UpdateProbe whose fetched ConfigMap is
\* still the stored one has its write applied; one whose fetched ConfigMap has
\* been written since is answered with an error, is not retried and changes
\* nothing.  Of two calls that fetched the same ConfigMap, the write of the
\* first makes the fetch of the second stale.
C18_StaleUpdateFails ==
  [][\A p \in Procs :
        (/\ backend = "k8s"
         /\ req[p].op = "update" /\ req[p].pc = "put"
         /\ req'[p] # req[p])
        => IF /\ req[p].id \in DOMAIN configMaps
              /\ configMaps[req[p].id].rv = req[p].cm.rv
           THEN /\ resp'.proc = p /\ resp'.code = 200
                /\ configMaps'[req[p].id].data = req[p].arg
                /\ \A q \in Procs \ {p} :
                      (req[q].op = "update" /\ req[q].pc = "put" /\ req[q].id = req[p].id)
                      => configMaps'[req[p].id].rv # req'[q].cm.rv
           ELSE /\ resp'.proc = p /\ resp'.code = 500 /\ resp'.err # ""
                /\ req'[p] = IdleReq
                /\ UNCHANGED configMaps]_vars

\* the second of two interleaved UpdateProbe calls has just been refused
C18_Witness ==
  /\ backend = "k8s"
  /\ resp.op = "update" /\ resp.code = 500 /\ resp.err = "Conflict"
  /\ resp.id \in Stored
  /\ configMaps[resp.id].rv = 1
  /\ ops = 3

\* C19: on the local store, the content of a record file, which is what a
\* reader obtains whenever it reads, is always one complete serialized record.
C19_ReadersSeeCompleteRecords ==
  backend = "local" => \A i \in DOMAIN files : Unmarshalable(files[i])

\* C20: on the local store, every UpdateProbe completes: its rename succeeds,
\* and the record then stored is exactly the record of one of the UpdateProbe
\* calls in progress on that id.
C20_ConcurrentUpdatesLastWriterWins ==
  [][\A p \in Procs :
        (/\ backend = "local"
         /\ req[p].op = "update" /\ req[p].pc = "rename"
         /\ req'[p] # req[p])
        => (/\ resp'.proc = p /\ resp'.code = 200
            /\ Unmarshalable(files'[req[p].id])
            /\ \E q \in Procs :
                  /\ req[q].op = "update" /\ req[q].id = req[p].id
                  /\ Unmarshal(files'[req[p].id]) = req[q].probe)]_vars

\* the records held by the well-formed <id>.json files
FinalRecords ==
  {Unmarshal(files[i]) : i \in {j \in DOMAIN files : Unmarshalable(files[j])}}

\* C21: on the local store, no step of a CreateProbe or UpdateProbe before
\* its rename, and no stop of the process between the write of the temp file
\* and the rename, changes any <id>.json file; and whatever .tmp files lie in
\* the directory, ListProbes returns and ProbeWithURLHashExists counts only
\* records of <id>.json files.
C21_CrashKeepsFinalFiles ==
  /\ [][\A p \in Procs :
          (/\ backend = "local"
           /\ \/ Crash(p)
              \/ /\ req[p].op \in {"create", "update"}
                 /\ req[p].pc \in {"store", "update", "open", "write"})
          => UNCHANGED files]_vars
  /\ [](backend = "local" =>
          /\ \A selector \in StoreSelectors :
                LocalListResult(selector) \subseteq FinalRecords
          /\ \A urlHashString \in {"h1", "h2"} :
                LocalProbeWithURLHashExists(urlHashString)
                  <=> \E probe \in FinalRecords :
                         HasLabel(probe.labels, probeURLHashLabelKey, urlHashString))

\* a ListProbes has returned while the temp file of a stopped CreateProbe,
\* holding a complete record, lies in the directory
C21_Witness ==
  /\ mode = "disk" /\ AllIdle
  /\ resp.op = "list" /\ resp.code = 200
  /\ \E i \in DOMAIN tmp :
        /\ i \notin DOMAIN files
        /\ Unmarshalable(tmp[i])
        /\ Unmarshal(tmp[i]) \notin resp.list

\* C22: on the local store, ListProbes with a selector that parses returns
\* without error exactly the matching records of the well-formed files,
\* whichever files of the directory are empty or cut short.
C22_ListSkipsBadFiles ==
  [][\A selector \in StoreSelectors :
        (/\ backend = "local"
         /\ req["p1"].op = "list" /\ req["p1"].sel = selector
         /\ ~labelsParseFails(selector)
         /\ resp'.op = "list")
        => (/\ resp'.code = 200 /\ resp'.err = ""
            /\ resp'.list = {probe \in FinalRecords : Matches(selector, probe.labels)})]_vars

\* a listing has returned a record from a directory that holds a bad file
C22_Witness ==
  /\ mode = "disk" /\ backend = "local"
  /\ resp.op = "list" /\ resp.code = 200
  /\ resp.list # {}
  /\ \E i \in DOMAIN files : ~Unmarshalable(files[i])

\* C23: on the ConfigMap store, a successful UpdateProbe leaves on the
\* ConfigMap every label it had and the probe does not name, gives the labels
\* the probe names the probe's value, and sets the app label to the fixed
\* value and the status label to the probe's status.
C23_UpdateOverlaysLabels ==
  [][(/\ backend = "k8s"
      /\ req["p1"].op = "update" /\ req["p1"].pc = "put"
      /\ resp'.op = "update" /\ resp'.code = 200)
     => LET id == req["p1"].id
            probe == req["p1"].arg
            reset == {baseAppLabelKey, probeStatusLabelKey}
        IN /\ \A k \in (DOMAIN configMaps[id].labels) \ ((DOMAIN probe.labels) \cup reset) :
                 HasLabel(configMaps'[id].labels, k, configMaps[id].labels[k])
           /\ \A k \in (DOMAIN probe.labels) \ reset :
                 HasLabel(configMaps'[id].labels, k, probe.labels[k])
           /\ HasLabel(configMaps'[id].labels, baseAppLabelKey, baseAppLabelValue)
           /\ HasLabel(configMaps'[id].labels, probeStatusLabelKey, probe.status)]_vars

\* an UpdateProbe that does not name env has returned and the ConfigMap is
\* still labelled env=prod, with the status label of the new status
C23_Witness ==
  /\ mode = "store" /\ backend = "k8s"
  /\ resp.op = "update" /\ resp.code = 200
  /\ "env" \notin DOMAIN resp.probe.labels
  /\ resp.probe.status = Active
  /\ HasLabel(configMaps[resp.id].labels, "env", "prod")
  /\ HasLabel(configMaps[resp.id].labels, probeStatusLabelKey, Active)

\* the label pairs of the gauge
MetricPairs == {Pending, Active, Failed, Terminating} \X {"true", "false"}

\* the value exposed for a pair (a pair never set exposes nothing: 0)
GaugeValue(pair) == IF pair \in DOMAIN probesTotal THEN probesTotal[pair] ELSE 0

\* the number of stored records of a pair
StoredCount(pair) ==
  Cardinality({i \in Stored :
                 Readable(i) /\ <<GetProbe(i).status, PrivateOf(GetProbe(i))>> = pair})

\* C24: when a cycle whose listing succeeded ends, the gauge of every pair
\* (status, private) equals the number of stored records of that pair, also
\* for a pair that was counted in an earlier cycle and has no record now.
C24_GaugeEqualsStoredCount ==
  [][(mon.pc = "cycle" /\ mon'.pc = "select" /\ mon'.listed = "ok")
     => \A pair \in MetricPairs : GaugeValue(pair)' = StoredCount(pair)']_vars

\* C25: a cycle whose listing fails changes no gauge and leaves the goroutine
\* in its select; from there, while the context is live, a waiting tick is
\* received and starts the next cycle.
C25_FailedListingSkipsCycle ==
  /\ [][(mon.pc = "cycle" /\ mon'.pc # "cycle" /\ mon'.listed = "error")
         => (probesTotal' = probesTotal /\ mon'.pc = "select")]_vars
  /\ [][(mon.pc = "select" /\ mon'.pc # "select" /\ ~ctxDone)
         => (ticker /\ mon'.pc = "cycle")]_vars
  /\ ((mon.pc = "select" /\ mon.listed = "error" /\ ticker /\ ~ctxDone)
        ~> (mon.pc = "cycle" \/ ctxDone))

\* a cycle whose listing failed has ended while the gauge holds a count, and
\* the context is live
C25_Witness ==
  /\ mon.pc = "select" /\ mon.listed = "error"
  /\ ~ctxDone
  /\ probesTotal # [pair \in {} |-> 0]

\* C26: MonitorProbes begins a cycle when it starts and each time it receives
\* a tick, and at no other time; it has returned only if its context is
\* cancelled, and once the context is cancelled it returns in the end.
C26_MonitorStopsOnCancel ==
  /\ [](mon.pc = "returned" => ctxDone)
  /\ [][(mon.pc # "cycle" /\ mon'.pc = "cycle")
         => (mon.pc = "start" \/ (mon.pc = "select" /\ ticker /\ ~ticker'))]_vars
  /\ [][(mon.pc = "start" /\ mon' # mon) => mon'.pc = "cycle"]_vars
  /\ [][(mon.pc = "select" /\ ticker /\ ~ticker') => mon'.pc = "cycle"]_vars
  /\ (ctxDone ~> mon.pc = "returned")

\* the goroutine has returned after a cycle that set the gauge
C26_Witness ==
  /\ mon.pc = "returned" /\ ctxDone
  /\ mon.listed = "ok"
  /\ probesTotal # [pair \in {} |-> 0]

\* C27: the removal step of a DeleteProbe never removes a record whose stored
\* status is active when the step is taken, whatever an UpdateProbe has done
\* to the record since the DeleteProbe read it.
C27_DeleteNeverRemovesActive ==
  [][\A p \in Procs : \A id \in Ids :
        (/\ req[p].op = "delete" /\ req[p].pc = "remove" /\ req[p].id = id
         /\ req'[p] # req[p]
         /\ id \in Stored /\ id \notin Stored')
        => ~(Readable(id) /\ GetProbe(id).status = Active)]_vars

\* C28: the step by which a service Update persists its record keeps what the
\* stored record holds at that moment and the request does not set: the
\* status when the request has none, and every user label the request does
\* not name.  (A request that persists after another one has, and that neither
\* fails nor does this, has undone the other's change.)
C28_NoLostUpdate ==
  [][\A p \in Procs : \A id \in Ids :
        (/\ req[p].op = "update" /\ req[p].pc \in {"put", "rename"} /\ req[p].id = id
         /\ resp'.proc = p /\ resp'.code = 200
         /\ id \in Stored /\ Readable(id))
        => (/\ id \in Stored' /\ Readable(id)'
            /\ req[p].status = NoStatus => GetProbe(id)'.status = GetProbe(id).status
            /\ \A k \in (DOMAIN UserLabels(GetProbe(id).labels)) \ (DOMAIN req[p].labels) :
                  HasLabel(GetProbe(id)'.labels, k, GetProbe(id).labels[k]))]_vars

\* the static_url values of the stored records
StoredUrls == {GetProbe(i).static_url : i \in {j \in Stored : Readable(j)}}

\* C29: a service Create whose static_url is the one of a stored record, of
\* any status, answers 409 and stores nothing; a Create whose static_url no
\* stored record has is carried out, and answers 201 with a record of a new
\* id and status pending.
C29_CreateIs409WhileStored ==
  [][\A p \in Procs : \A url \in Urls :
        /\ (/\ url \in StoredUrls
            /\ \E labels \in CreateLabelSets : ServerCreateProbe(p, url, labels))
           => (/\ resp'.proc = p /\ resp'.code = 409
               /\ UNCHANGED <<configMaps, files, tmp>>)
        /\ (/\ url \notin StoredUrls
            /\ \E labels \in CreateLabelSets : ServerCreateProbe(p, url, labels))
           => (/\ req'[p].op = "create" /\ req'[p].probe.static_url = url
               /\ req'[p].id \notin Stored
               /\ \A q \in Procs : req[q].id # req'[p].id)
        /\ \A id \in Ids :
             (/\ req[p].op = "create" /\ req[p].probe.static_url = url
              /\ req[p].id = id
              /\ url \notin StoredUrls
              /\ resp'.proc = p)
             => (/\ resp'.code = 201
                 /\ resp'.probe.id = id /\ resp'.probe.status = Pending
                 /\ resp'.probe.static_url = url
                 /\ id \in Stored' /\ GetProbe(id)'.status = Pending)]_vars

\* C30: the status of every stored record is pending, active, failed or
\* terminating, or a string outside the enumeration, and never deleted.  A
\* string outside the enumeration comes from a request that carries it: a
\* step stores it only from the copy of a request in flight, and a request's
\* copy gets it only from the request's body or from the stored record.
C30_DeletedNeverPersisted ==
  /\ [](\A i \in Stored :
          Readable(i) =>
            GetProbe(i).status \in {Pending, Active, Failed, Terminating, UnknownStatus})
  /\ [][\A i \in Ids :
          (i \in Stored' /\ Readable(i)' /\ GetProbe(i)'.status = UnknownStatus)
          => \/ i \in Stored /\ Readable(i) /\ GetProbe(i).status = UnknownStatus
             \/ \E p \in Procs :
                   /\ req[p].op = "update" /\ req[p].id = i
                   /\ req[p].arg.status = UnknownStatus]_vars
  /\ [][\A p \in Procs : \A i \in Ids :
          (/\ req'[p].id = i
           /\ req'[p].arg.status = UnknownStatus
           /\ req[p].arg.status # UnknownStatus)
          => \/ req'[p].status = UnknownStatus
             \/ i \in Stored /\ Readable(i) /\ GetProbe(i).status = UnknownStatus]_vars

\* a deletion-intent Update holds its record with status deleted and is about
\* to fail in its removal step, another request having removed the record
C30_Witness ==
  /\ mode = "interleaved"
  /\ \E p \in Procs :
        /\ req[p].op = "update" /\ req[p].pc = "delstorage"
        /\ req[p].probe.status = Deleted
        /\ req[p].id \notin Stored

====
